---------------------------- MODULE Spec2Model ----------------------------
(***************************************************************************)
(* A model of gradio_sample_viewer: the path resolver, the file loader,    *)
(* the layout resolution engine (layout_decode.py), the sample discovery   *)
(* and pagination backend (backend.py) and the page state of the UI        *)
(* (ui.py).                                                                *)
(*                                                                         *)
(* Paths are pathlib "parts": a sequence of names, an absolute path        *)
(* starting with the root part "/".  The filesystem fs maps every file     *)
(* (and every explicitly created empty directory) to what it holds; a      *)
(* path exists when it is a prefix of one of them.                         *)
(***************************************************************************)
EXTENDS Integers, Sequences, FiniteSets, TLC

VARIABLES
    fs,               \* the filesystem: path (parts) -> what the file holds
    path_candidates,  \* get_first_path_exists: its first argument
    sample_folder,    \* get_first_path_exists: its second argument
    fpe_result,       \* get_first_path_exists: what the call returned
    layout,           \* cfg.layout, the configured template
    layout_loaded,    \* cfg.layout as load_config returned it
    memo,             \* load_file's lru_cache
    resolved,         \* the last prepare_layout_components call and its tree
    first_out,        \* per sample, what its first resolution returned
    loaded,           \* the last load_file call: its path, result, whether it read
    last_read,        \* what load_file returned when it last read the watched path
    others,           \* how many other paths have been loaded so far
    since,            \* how many of them since the watched path was last loaded
    cfg,              \* the GradioConfig the viewer was started with
    cache_file,       \* the discovery cache file at Backend.cached_path
    constructed,      \* whether Backend.__init__ has returned
    all_samples_dirs, \* Backend.all_samples_dirs, unset until it is assigned
    last_pass,        \* the last discover_all_samples call
    offset_state,     \* ui.py:34
    samples_state,    \* ui.py:30
    samples_gradio,   \* ui.py:31, the ids that have a rendered column, in order
    dummy_rerender_text, \* ui.py:42
    last_page,        \* the last get_samples_metadata call
    last_render,      \* the last create_samples_rows call
    in_between,       \* whether a rescan ran after a page request of the session
    writer,           \* a discover_all_samples call that is writing the cache file
    reader            \* what another Backend loaded from the cache file

pathVars == <<path_candidates, sample_folder, fpe_result>>
treeVars == <<layout, layout_loaded, memo, resolved, first_out>>
lruVars == <<loaded, last_read, others, since>>
backendVars == <<cfg, cache_file, constructed, all_samples_dirs, last_pass>>
uiVars == <<offset_state, samples_state, samples_gradio, dummy_rerender_text,
            last_page, last_render, in_between>>
appVars == <<backendVars, uiVars, writer, reader>>
vars == <<fs, pathVars, treeVars, lruVars, appVars>>

----------------------------------------------------------------------------
(* pathlib *)

Root == "/"

\* Path.is_absolute()
IsAbsolute(p) == Len(p) > 0 /\ p[1] = Root

\* PurePath.__truediv__: an absolute right operand replaces the left one
Join(a, b) == IF IsAbsolute(b) THEN b ELSE a \o b

IsPrefix(p, q) == Len(p) <= Len(q) /\ SubSeq(q, 1, Len(p)) = p

\* Path.exists() on the filesystem f
PathExistsIn(f, p) == \E q \in DOMAIN f : IsPrefix(p, q)

PathExists(p) == PathExistsIn(fs, p)

----------------------------------------------------------------------------
(* get_first_path_exists, layout_decode.py:36-45 *)

\* lines 39-41: the path that is tested for a candidate
full_path(path, folder) == IF ~IsAbsolute(path) THEN Join(folder, path) ELSE path

\* the candidates, in list order, whose full path exists
ExistingCandidates(f, candidates, folder) ==
    {i \in 1..Len(candidates) : PathExistsIn(f, full_path(candidates[i], folder))}

Min(S) == CHOOSE i \in S : \A j \in S : i <= j

\* a plausible slip: the fallback picks the last candidate
get_first_path_exists_last(f, candidates, folder) ==
    LET ex == ExistingCandidates(f, candidates, folder)
    IN IF ex # {} THEN full_path(candidates[Min(ex)], folder)
       ELSE candidates[Len(candidates)]

\* lines 38-45: the first candidate whose full path exists is returned as
\* that full path; otherwise path_candidates[0] is returned as it was given
get_first_path_exists(f, candidates, folder) ==
    LET ex == ExistingCandidates(f, candidates, folder)
    IN IF ex # {} THEN full_path(candidates[Min(ex)], folder)
       ELSE candidates[1]

\* no call of get_first_path_exists has returned yet
NoCall == [done |-> FALSE]

----------------------------------------------------------------------------
(* Python values.  A string is a sequence of text tokens: a token is a run  *)
(* of ordinary characters, or one of the characters JSON treats specially, *)
(* or the placeholder.  A dict is the sequence of its items in insertion    *)
(* order, each <<key, value>> with the key's text.                          *)

DQ == "<dq>"                    \* the character "
BS == "<bs>"                    \* the character \
SEP == "/"                      \* the path separator
PH == "${sample_folder_name}"   \* layout_decode.py:124

Str(chars) == [tag |-> "str", chars |-> chars]
Int_(n) == [tag |-> "int", n |-> n]
Bool(b) == [tag |-> "bool", b |-> b]
None == [tag |-> "none"]
List(items) == [tag |-> "list", items |-> items]
Dict(pairs) == [tag |-> "dict", pairs |-> pairs]
PathV(parts) == [tag |-> "path", parts |-> parts]
Raise(exc) == [tag |-> "raise", exc |-> exc]

IsRaise(v) == v.tag = "raise"

\* dict: `k in d`, d[k], d.get(k, None), d.pop(k), d[k] = v
Keys(d) == {d.pairs[i][1] : i \in 1..Len(d.pairs)}
HasKey(d, k) == k \in Keys(d)
KeyIndex(d, k) == CHOOSE i \in 1..Len(d.pairs) : d.pairs[i][1] = k
Item(d, k) == d.pairs[KeyIndex(d, k)][2]
Get(d, k) == IF HasKey(d, k) THEN Item(d, k) ELSE None
Pop(d, k) == Dict(SelectSeq(d.pairs, LAMBDA kv : kv[1] # k))
SetItem(d, k, v) ==
    IF HasKey(d, k)
    THEN Dict([i \in 1..Len(d.pairs) |->
                 IF d.pairs[i][1] = k THEN <<k, v>> ELSE d.pairs[i]])
    ELSE Dict(Append(d.pairs, <<k, v>>))

\* bool(v)
Truthy(v) ==
    CASE v.tag = "bool" -> v.b
      [] v.tag = "none" -> FALSE
      [] v.tag = "int" -> v.n # 0
      [] v.tag = "str" -> v.chars # <<>>
      [] v.tag = "list" -> v.items # <<>>
      [] v.tag = "dict" -> v.pairs # <<>>
      [] OTHER -> TRUE

----------------------------------------------------------------------------
(* json.dumps, str.replace and json.loads on text, layout_decode.py:124 *)

\* the concatenation of a sequence of sequences, by halves
RECURSIVE Flatten(_)
Flatten(seqs) ==
    IF Len(seqs) = 0 THEN <<>>
    ELSE IF Len(seqs) = 1 THEN seqs[1]
    ELSE LET mid == Len(seqs) \div 2
         IN Flatten(SubSeq(seqs, 1, mid)) \o Flatten(SubSeq(seqs, mid + 1, Len(seqs)))

\* json.dumps escapes the quote and the backslash inside a string
EscapeChar(c) ==
    IF c = DQ THEN <<BS, DQ>> ELSE IF c = BS THEN <<BS, BS>> ELSE <<c>>

DumpString(chars) ==
    <<DQ>> \o Flatten([i \in 1..Len(chars) |-> EscapeChar(chars[i])]) \o <<DQ>>

RECURSIVE Dumps(_)
Dumps(v) ==
    CASE v.tag = "str" -> DumpString(v.chars)
      [] v.tag = "int" -> <<ToString(v.n)>>
      [] v.tag = "bool" -> <<IF v.b THEN "true" ELSE "false">>
      [] v.tag = "none" -> <<"null">>
      [] v.tag = "list" ->
            <<"[">>
            \o Flatten([i \in 1..Len(v.items) |->
                          (IF i > 1 THEN <<",">> ELSE <<>>) \o Dumps(v.items[i])])
            \o <<"]">>
      [] v.tag = "dict" ->
            <<"{">>
            \o Flatten([i \in 1..Len(v.pairs) |->
                          (IF i > 1 THEN <<",">> ELSE <<>>)
                          \o DumpString(v.pairs[i][1]) \o <<":">>
                          \o Dumps(v.pairs[i][2])])
            \o <<"}">>

\* str.replace(PH, folder_name): the name is inserted as it is, unescaped
Replace(text, folder_name) ==
    Flatten([i \in 1..Len(text) |->
               IF text[i] = PH THEN folder_name ELSE <<text[i]>>])

MaxNumber == 9
NumberTokens == {ToString(n) : n \in 0..MaxNumber}
NumberOf(tok) == CHOOSE n \in 0..MaxNumber : ToString(n) = tok

ParseFail == [ok |-> FALSE, val |-> None, next |-> 0]
Parsed(v, next) == [ok |-> TRUE, val |-> v, next |-> next]

\* the body of a JSON string from position i on, up to its closing quote; a
\* backslash must be followed by a quote or a backslash (the ordinary text
\* of the model starts with no escape letter)
RECURSIVE ParseString(_, _, _)
ParseString(t, i, acc) ==
    IF i > Len(t) THEN ParseFail
    ELSE IF t[i] = DQ THEN Parsed(acc, i + 1)
    ELSE IF t[i] = BS
         THEN IF i + 1 <= Len(t) /\ t[i + 1] \in {DQ, BS}
              THEN ParseString(t, i + 2, Append(acc, t[i + 1]))
              ELSE ParseFail
    ELSE ParseString(t, i + 1, Append(acc, t[i]))

RECURSIVE ParseValue(_, _)
RECURSIVE ParseItems(_, _, _)
RECURSIVE ParsePairs(_, _, _)

ParseValue(t, i) ==
    IF i > Len(t) THEN ParseFail
    ELSE IF t[i] = DQ
         THEN LET s == ParseString(t, i + 1, <<>>)
              IN IF s.ok THEN Parsed(Str(s.val), s.next) ELSE ParseFail
    ELSE IF t[i] = "[" THEN
         IF i + 1 <= Len(t) /\ t[i + 1] = "]" THEN Parsed(List(<<>>), i + 2)
         ELSE ParseItems(t, i + 1, <<>>)
    ELSE IF t[i] = "{" THEN
         IF i + 1 <= Len(t) /\ t[i + 1] = "}" THEN Parsed(Dict(<<>>), i + 2)
         ELSE ParsePairs(t, i + 1, Dict(<<>>))
    ELSE IF t[i] = "true" THEN Parsed(Bool(TRUE), i + 1)
    ELSE IF t[i] = "false" THEN Parsed(Bool(FALSE), i + 1)
    ELSE IF t[i] = "null" THEN Parsed(None, i + 1)
    ELSE IF t[i] \in NumberTokens THEN Parsed(Int_(NumberOf(t[i])), i + 1)
    ELSE ParseFail

\* the elements of an array, position i at the start of an element
ParseItems(t, i, acc) ==
    LET e == ParseValue(t, i)
    IN IF ~e.ok \/ e.next > Len(t) THEN ParseFail
       ELSE IF t[e.next] = "]" THEN Parsed(List(Append(acc, e.val)), e.next + 1)
       ELSE IF t[e.next] = "," THEN ParseItems(t, e.next + 1, Append(acc, e.val))
       ELSE ParseFail

\* the members of an object, position i at the start of a key; a repeated
\* key keeps its first position and takes the last value
ParsePairs(t, i, acc) ==
    IF i > Len(t) \/ t[i] # DQ THEN ParseFail
    ELSE LET k == ParseString(t, i + 1, <<>>)
         IN IF ~k.ok \/ k.next > Len(t) \/ t[k.next] # ":" THEN ParseFail
            ELSE LET e == ParseValue(t, k.next + 1)
                 IN IF ~e.ok \/ e.next > Len(t) THEN ParseFail
                    ELSE IF t[e.next] = "}"
                         THEN Parsed(SetItem(acc, k.val, e.val), e.next + 1)
                    ELSE IF t[e.next] = ","
                         THEN ParsePairs(t, e.next + 1, SetItem(acc, k.val, e.val))
                    ELSE ParseFail

\* json.loads: one value and nothing after it, else JSONDecodeError
Loads(t) ==
    LET r == ParseValue(t, 1)
    IN IF r.ok /\ r.next = Len(t) + 1 THEN r.val ELSE Raise("JSONDecodeError")

----------------------------------------------------------------------------
(* Path(str) and Path.suffix *)

\* the parts of the text of a path: separators split it, the tokens between
\* two separators are one name, a leading separator is the root part
RECURSIVE SplitParts(_, _, _, _)
SplitParts(chars, i, cur, acc) ==
    IF i > Len(chars) THEN (IF cur = "" THEN acc ELSE Append(acc, cur))
    ELSE IF chars[i] = SEP
         THEN SplitParts(chars, i + 1, "", IF cur = "" THEN acc ELSE Append(acc, cur))
    ELSE SplitParts(chars, i + 1, cur \o chars[i], acc)

PathOf(chars) ==
    (IF Len(chars) > 0 /\ chars[1] = SEP THEN <<Root>> ELSE <<>>)
    \o SplitParts(chars, 1, "", <<>>)

Max(S) == CHOOSE i \in S : \A j \in S : i >= j

\* PurePath.suffix: the name from its last dot on, unless that dot starts or
\* ends the name
Suffix(p) ==
    IF p = <<>> THEN ""
    ELSE LET name == p[Len(p)]
             dots == {i \in 1..Len(name) : SubSeq(name, i, i) = "."}
         IN IF dots # {} /\ Max(dots) > 1 /\ Max(dots) < Len(name)
            THEN SubSeq(name, Max(dots), Len(name))
            ELSE ""

----------------------------------------------------------------------------
(* pandas: a DataFrame read with index_col=0, and a row of it *)

Frame(labels, cols, data) ==
    [tag |-> "frame", labels |-> labels, cols |-> cols, data |-> data]
Series(labels, vals) == [tag |-> "series", labels |-> labels, vals |-> vals]

\* DataFrame.empty: an axis of length 0
FrameEmpty(df) == df.labels = <<>> \/ df.cols = <<>>

\* obj.loc[key] for one label: KeyError for a label that is not in the index;
\* a row of a frame is a Series, a cell of a Series is its value; a value that
\* is neither has no .loc
Loc(obj, key) ==
    IF obj.tag \notin {"frame", "series"} THEN Raise("AttributeError")
    ELSE IF key.tag # "str" THEN Raise("KeyError")
    ELSE LET hits == {i \in 1..Len(obj.labels) : obj.labels[i] = key.chars}
         IN IF hits = {} THEN Raise("KeyError")
            ELSE IF obj.tag = "series" THEN obj.vals[Min(hits)]
            ELSE IF Cardinality(hits) = 1 THEN Series(obj.cols, obj.data[Min(hits)])
            ELSE LET rows == SelectSeq([i \in 1..Len(obj.labels) |-> i],
                                       LAMBDA i : i \in hits)
                 IN Frame([j \in 1..Len(rows) |-> obj.labels[rows[j]]], obj.cols,
                          [j \in 1..Len(rows) |-> obj.data[rows[j]]])

----------------------------------------------------------------------------
(* load_file and its lru_cache, layout_decode.py:19-33.  The memo is the    *)
(* cache's entries from the least to the most recently used.                *)

\* functools.lru_cache without arguments: maxsize=128
maxsize == 128

Bytes == [tag |-> "bytes"]

\* lines 22-33, the body: dispatch on the suffix; a file holds the value its
\* parser yields, or bytes no parser accepts
load_file_body(f, filepath) ==
    IF Suffix(filepath) \notin {".json", ".csv", ".txt"} THEN Raise("NotImplementedError")
    ELSE IF filepath \notin DOMAIN f THEN Raise("OSError")
    ELSE IF Suffix(filepath) = ".json"
         THEN (IF f[filepath].tag \in {"bytes", "frame"}
               THEN Raise("JSONDecodeError") ELSE f[filepath])
    ELSE IF Suffix(filepath) = ".csv"
         THEN (IF f[filepath].tag = "frame" THEN f[filepath] ELSE Raise("ParserError"))
    ELSE (IF f[filepath].tag = "str" THEN f[filepath] ELSE Raise("UnicodeDecodeError"))

MemoKeys(m) == {m[i].key : i \in 1..Len(m)}
MemoIndex(m, key) == CHOOSE i \in 1..Len(m) : m[i].key = key
MemoValue(m, key) == m[MemoIndex(m, key)].value

\* a hit makes the entry the most recently used
Touch(m, key) ==
    SelectSeq(m, LAMBDA e : e.key # key) \o <<m[MemoIndex(m, key)]>>

\* a miss stores the result, evicting the least recently used entry of a full
\* cache; a call that raises stores nothing
Store(m, key, value) ==
    Append(IF Len(m) >= maxsize THEN Tail(m) ELSE m, [key |-> key, value |-> value])

\* a slip: the cache is consulted but never filled
load_file_nostore(f, m, filepath) ==
    IF filepath \in MemoKeys(m)
    THEN [val |-> MemoValue(m, filepath), memo |-> Touch(m, filepath), read |-> FALSE]
    ELSE [val |-> load_file_body(f, filepath), memo |-> m, read |-> TRUE]

\* load_file(filepath) with the memo m: the value, the memo afterwards and
\* whether the file was read
load_file(f, m, filepath) ==
    IF filepath \in MemoKeys(m)
    THEN [val |-> MemoValue(m, filepath), memo |-> Touch(m, filepath), read |-> FALSE]
    ELSE LET v == load_file_body(f, filepath)
         IN [val |-> v,
             memo |-> IF IsRaise(v) THEN m ELSE Store(m, filepath, v),
             read |-> TRUE]

----------------------------------------------------------------------------
(* Objects shared with the memo.  load_file returns the cached object       *)
(* itself, so a dict or list that load_layout_files hands out is the memo's *)
(* own object: the resolved tree holds a reference to it, the memo's key    *)
(* and the chain of keys that leads to it inside the cached value.          *)

Ref(key, chain) == [tag |-> "ref", key |-> key, chain |-> chain]

RECURSIVE ValueAt(_, _)
ValueAt(obj, chain) ==
    IF chain = <<>> THEN obj ELSE ValueAt(Item(obj, Head(chain)), Tail(chain))

RECURSIVE SetAt(_, _, _)
SetAt(obj, chain, v) ==
    IF chain = <<>> THEN v
    ELSE SetItem(obj, Head(chain), SetAt(Item(obj, Head(chain)), Tail(chain), v))

\* the object a reference stands for
Target(m, r) == ValueAt(MemoValue(m, r.key), r.chain)

\* the memo after the object of reference r became v
WriteTarget(m, r, v) ==
    [i \in 1..Len(m) |->
        IF m[i].key = r.key
        THEN [key |-> r.key, value |-> SetAt(m[i].value, r.chain, v)]
        ELSE m[i]]

\* a value as the caller sees it now: every reference replaced by its object
RECURSIVE Deref(_, _)
Deref(m, v) ==
    CASE v.tag = "ref" -> Target(m, v)
      [] v.tag = "list" -> List([i \in 1..Len(v.items) |-> Deref(m, v.items[i])])
      [] v.tag = "dict" ->
            Dict([i \in 1..Len(v.pairs) |->
                    <<v.pairs[i][1], Deref(m, v.pairs[i][2])>>])
      [] OTHER -> v

\* what a call hands out for the cached object at `chain` under `key`
Shared(v, key, chain) ==
    IF v.tag \in {"dict", "list"} THEN Ref(key, chain) ELSE v

----------------------------------------------------------------------------
(* load_layout_files, layout_decode.py:48-115 *)

Key(name) == <<name>>

Result(v, m) == [val |-> v, memo |-> m]

\* line 60: get_first_path_exists on the node's list of path texts.  Path()
\* of a candidate that is no text raises; the result is the full path found
\* or, line 45, the first list element as it stands
first_path_exists_node(cands, folder, f) ==
    IF cands.tag # "list" THEN Raise("TypeError")
    ELSE LET n == Len(cands.items)
             bad == {i \in 1..n : cands.items[i].tag # "str"}
             paths == [i \in 1..n |->
                          IF i \in bad THEN <<>> ELSE PathOf(cands.items[i].chars)]
             ex == {i \in ExistingCandidates(f, paths, folder) : i \notin bad}
             stop == ex \cup bad
         IN IF stop = {} THEN (IF n = 0 THEN Raise("IndexError") ELSE cands.items[1])
            ELSE IF Min(stop) \in bad THEN Raise("TypeError")
            ELSE PathV(get_first_path_exists(f, paths, folder))

\* lines 96-105: the chain of .get calls on a dict
RECURSIVE get_chain(_, _, _, _, _)
get_chain(obj, keys, i, key, chain) ==
    IF i > Len(keys) THEN Shared(obj, key, chain)
    ELSE IF obj.tag # "dict" THEN Raise("AttributeError")
    ELSE IF keys[i].tag \in {"list", "dict"} THEN Raise("TypeError")
    ELSE IF keys[i].tag # "str" \/ ~HasKey(obj, keys[i].chars) THEN None
    ELSE IF Item(obj, keys[i].chars) = None THEN None
    ELSE get_chain(Item(obj, keys[i].chars), keys, i + 1, key,
                   Append(chain, keys[i].chars))

\* lines 111-115: the chain of .loc lookups on a DataFrame
RECURSIVE loc_chain(_, _, _)
loc_chain(obj, keys, i) ==
    IF i > Len(keys) \/ IsRaise(obj) THEN obj
    ELSE loc_chain(Loc(obj, keys[i]), keys, i + 1)

\* `for index_key in indices`
IndexKeys(indices) ==
    IF indices.tag = "list" THEN indices.items
    ELSE [i \in 1..Len(indices.chars) |-> Str(<<indices.chars[i]>>)]

\* lines 91-115: the loaded contents indexed by a non-empty `indices`
load_contents_indexed(contents, indices, key) ==
    IF contents.tag \notin {"dict", "frame"} THEN Raise("TypeError")
    ELSE IF indices.tag \notin {"list", "str"} THEN Raise("TypeError")
    ELSE IF contents.tag = "dict"
         THEN (IF contents.pairs = <<>> THEN None
               ELSE get_chain(contents, IndexKeys(indices), 1, key, <<>>))
    ELSE IF FrameEmpty(contents) THEN None
    ELSE loc_chain(contents, IndexKeys(indices), 1)

\* lines 76-78: the path a load_contents node loads
resolved_load_path(data, sample_name, results_folder) ==
    LET load_path == PathOf(Item(data, Key("load_path")).chars)
    IN IF ~IsAbsolute(load_path)
       THEN Join(Join(results_folder, PathOf(sample_name)), load_path)
       ELSE load_path

\* a slip: the file is loaded without a look at whether the path exists
load_contents_node_unchecked(data, sample_name, results_folder, f, m) ==
    IF ~HasKey(data, Key("load_path")) THEN Result(Raise("ValueError"), m)
    ELSE IF Item(data, Key("load_path")).tag # "str" THEN Result(Raise("TypeError"), m)
    ELSE LET load_path == resolved_load_path(data, sample_name, results_folder)
             r == load_file(f, m, load_path)
             indices == Get(data, Key("indices"))
         IN IF IsRaise(r.val) THEN Result(r.val, r.memo)
            ELSE IF indices \in {None, List(<<>>)}
                 THEN Result(Shared(r.val, load_path, <<>>), r.memo)
            ELSE Result(load_contents_indexed(r.val, indices, load_path), r.memo)

\* lines 69-115: a node with load_contents set
load_contents_node(data, sample_name, results_folder, f, m) ==
    IF ~HasKey(data, Key("load_path")) THEN Result(Raise("ValueError"), m)
    ELSE IF Item(data, Key("load_path")).tag # "str" THEN Result(Raise("TypeError"), m)
    ELSE LET load_path == resolved_load_path(data, sample_name, results_folder)
         IN IF ~PathExistsIn(f, load_path) THEN Result(Raise("FileNotFoundError"), m)
            ELSE LET r == load_file(f, m, load_path)
                     indices == Get(data, Key("indices"))
                 IN IF IsRaise(r.val) THEN Result(r.val, r.memo)
                    ELSE IF indices \in {None, List(<<>>)}
                         THEN Result(Shared(r.val, load_path, <<>>), r.memo)
                    ELSE Result(load_contents_indexed(r.val, indices, load_path), r.memo)

RECURSIVE load_layout_files(_, _, _, _, _)
RECURSIVE load_items(_, _, _, _, _, _, _)
RECURSIVE load_values(_, _, _, _, _, _, _)

\* line 51: the list comprehension, element by element; an element that
\* raises ends it
load_items(items, i, acc, sample_name, results_folder, f, m) ==
    IF i > Len(items) THEN Result(List(acc), m)
    ELSE LET r == load_layout_files(items[i], sample_name, results_folder, f, m)
         IN IF IsRaise(r.val) THEN r
            ELSE load_items(items, i + 1, Append(acc, r.val),
                            sample_name, results_folder, f, r.memo)

\* lines 64-67: the dict comprehension; only dict and list values recurse
load_values(pairs, i, acc, sample_name, results_folder, f, m) ==
    IF i > Len(pairs) THEN Result(Dict(acc), m)
    ELSE IF pairs[i][2].tag \notin {"dict", "list"}
         THEN load_values(pairs, i + 1, Append(acc, pairs[i]),
                          sample_name, results_folder, f, m)
    ELSE LET r == load_layout_files(pairs[i][2], sample_name, results_folder, f, m)
         IN IF IsRaise(r.val) THEN r
            ELSE load_values(pairs, i + 1, Append(acc, <<pairs[i][1], r.val>>),
                             sample_name, results_folder, f, r.memo)

load_layout_files(data, sample_name, results_folder, f, m) ==
    IF data.tag = "list"
    THEN load_items(data.items, 1, <<>>, sample_name, results_folder, f, m)
    ELSE IF data.tag # "dict" THEN Result(Raise("TypeError"), m)
    ELSE IF HasKey(data, Key("first_path_exists"))
         THEN Result(first_path_exists_node(Item(data, Key("first_path_exists")),
                                            Join(results_folder, PathOf(sample_name)), f),
                     m)
    ELSE IF ~Truthy(Get(data, Key("load_contents")))
         THEN load_values(data.pairs, 1, <<>>, sample_name, results_folder, f, m)
    ELSE load_contents_node(data, sample_name, results_folder, f, m)

\* a slip: the placeholder is left in the tree
prepare_layout_components_noreplace(cfg_layout, folder_name, results_folder, f, m) ==
    load_layout_files(Loads(Dumps(cfg_layout)), folder_name, results_folder, f, m)

\* prepare_layout_components, lines 118-125
prepare_layout_components(cfg_layout, folder_name, results_folder, f, m) ==
    LET copy == Loads(Replace(Dumps(cfg_layout), folder_name))
    IN IF IsRaise(copy) THEN Result(copy, m)
       ELSE load_layout_files(copy, folder_name, results_folder, f, m)

----------------------------------------------------------------------------
(* make_gradio_components, layout_decode.py:169-182.  It pops "components"  *)
(* and "type" from the dicts it is given; the gradio constructors it calls  *)
(* are taken to succeed.                                                    *)

Made(v, m, err) == [val |-> v, memo |-> m, err |-> err]

RECURSIVE make_gradio_components(_, _)
RECURSIVE make_items(_, _, _, _)

\* lines 178-179: the elements in order; an element that raises ends the loop
make_items(items, i, acc, m) ==
    IF i > Len(items) THEN Made(List(acc), m, "")
    ELSE LET r == make_gradio_components(items[i], m)
         IN IF r.err # ""
            THEN Made(List(Append(acc, r.val) \o SubSeq(items, i + 1, Len(items))),
                      r.memo, r.err)
            ELSE make_items(items, i + 1, Append(acc, r.val), r.memo)

make_gradio_components(node, m) ==
    IF node.tag = "ref"
    THEN \* the memo's own object is the one that is changed
         LET r == make_gradio_components(Target(m, node), m)
         IN Made(node, WriteTarget(m, node, r.val), r.err)
    ELSE IF node.tag = "dict" /\ HasKey(node, Key("components"))
    THEN LET rest == Pop(node, Key("components"))
         IN IF ~HasKey(rest, Key("type")) THEN Made(rest, m, "KeyError")
            ELSE LET r == make_gradio_components(Item(node, Key("components")), m)
                 IN Made(Pop(rest, Key("type")), r.memo, r.err)
    ELSE IF node.tag = "list" THEN make_items(node.items, 1, <<>>, m)
    ELSE IF node.tag = "dict"
    THEN (IF HasKey(node, Key("type")) THEN Made(Pop(node, Key("type")), m, "")
          ELSE Made(node, m, "KeyError"))
    ELSE IF node.tag \in {"frame", "series"} THEN Made(node, m, "KeyError")
    ELSE Made(node, m, "AttributeError")

----------------------------------------------------------------------------
(* The layout engine: SpecTree resolves templates for samples and builds    *)
(* components from the results.                                             *)

results_folder == <<Root, "r">>

NoTree == [done |-> FALSE]

LruIdle ==
    /\ loaded = NoCall
    /\ last_read = NoCall
    /\ others = 0
    /\ since = 0

TreeIdle ==
    /\ layout = List(<<>>)
    /\ layout_loaded = layout
    /\ memo = <<>>
    /\ resolved = NoTree
    /\ first_out = <<>>

\* an attribute that was never assigned, a file that is not there
Unset == [tag |-> "unset"]
NoFile == [tag |-> "nofile"]

\* no viewer is running
AppIdle ==
    /\ cfg = None
    /\ cache_file = NoFile
    /\ constructed = FALSE
    /\ all_samples_dirs = Unset
    /\ last_pass = NoCall
    /\ offset_state = 0
    /\ samples_state = <<>>
    /\ samples_gradio = <<>>
    /\ dummy_rerender_text = ""
    /\ last_page = NoCall
    /\ last_render = NoCall
    /\ in_between = FALSE
    /\ writer = [pc |-> "idle"]
    /\ reader = NoCall

\* create_samples_rows, ui.py:73-75, first half: resolve the template for a
\* sample
PrepareLayoutComponents(folder_name) ==
    \E r \in {prepare_layout_components(layout, folder_name, results_folder, fs, memo)} :
    \E out \in {IF IsRaise(r.val) THEN r.val ELSE Deref(r.memo, r.val)} :
       /\ resolved' = [done |-> TRUE, sample |-> folder_name, tree |-> r.val,
                       out |-> out, made |-> FALSE]
       /\ memo' = r.memo
       /\ first_out' = IF first_out[folder_name] = NoTree
                       THEN [first_out EXCEPT ![folder_name] = [done |-> TRUE, out |-> out]]
                       ELSE first_out
       /\ UNCHANGED <<fs, layout, layout_loaded, pathVars, lruVars, appVars>>

\* create_samples_rows, ui.py:73-75, second half: build the components of
\* the tree just resolved
MakeGradioComponents ==
    /\ resolved.done
    /\ ~resolved.made
    /\ ~IsRaise(resolved.tree)
    /\ \E r \in {make_gradio_components(resolved.tree, memo)} :
          /\ resolved' = [resolved EXCEPT !.tree = r.val, !.made = TRUE]
          /\ memo' = r.memo
    /\ UNCHANGED <<fs, layout, layout_loaded, first_out, pathVars, lruVars, appVars>>

Text(text) == Str(<<text>>)

\* a widget with a text that names the sample
MarkdownNode ==
    Dict(<< <<Key("type"), Text("Markdown")>>,
            <<Key("value"), Str(<<"Sample ", PH>>)>> >>)

\* scalar fields of every kind
NumberNode ==
    Dict(<< <<Key("type"), Text("Number")>>, <<Key("value"), Int_(1)>>,
            <<Key("visible"), Bool(FALSE)>>, <<Key("label"), None>> >>)

\* a container with children
RowNode ==
    Dict(<< <<Key("type"), Text("Row")>>,
            <<Key("components"), List(<<MarkdownNode, NumberNode>>)>> >>)

\* a field whose value is a mapping
StyledNode ==
    Dict(<< <<Key("type"), Text("Image")>>,
            <<Key("value"), Str(<<PH, SEP, "thumb.jpg">>)>>,
            <<Key("label"), Dict(<< <<Key(PH), Text("x")>> >>)>> >>)

\* a field whose value is a sequence of scalars
DropdownNode ==
    Dict(<< <<Key("type"), Text("Dropdown")>>,
            <<Key("choices"), List(<<Text("x"), Text("y")>>)>> >>)

\* a sequence nested in the sequence
NestedNode == List(<<MarkdownNode>>)

ThumbNode ==
    Dict(<< <<Key("type"), Text("Image")>>,
            <<Key("value"),
              Dict(<< <<Key("first_path_exists"),
                        List(<<Text("thumb.png"), Text("thumb.jpg")>>)>> >>)>> >>)

LoadNode(path, indices) ==
    Dict(<< <<Key("load_contents"), Bool(TRUE)>>, <<Key("load_path"), Text(path)>> >>
         \o (IF indices = None THEN <<>> ELSE << <<Key("indices"), indices>> >>))

\* a field whose value is loaded from a file of the sample
JsonNode ==
    Dict(<< <<Key("type"), Text("JSON")>>,
            <<Key("value"), LoadNode("data.json", None)>> >>)

TextNode ==
    Dict(<< <<Key("type"), Text("Textbox")>>,
            <<Key("value"), LoadNode("data.json", List(<<Text("k1"), Text("k2")>>))>> >>)

\* a widget whose whole description is loaded from a file of the sample
WidgetNode == LoadNode("widget.json", None)

PlainNodes == {MarkdownNode, NumberNode, RowNode, StyledNode, DropdownNode, NestedNode}
LayoutNodes == PlainNodes \cup {ThumbNode, JsonNode, TextNode, WidgetNode}

MaxNodes == 2

\* the nodes that are combined into longer layouts
ListedNodes == {RowNode, StyledNode, DropdownNode, JsonNode, WidgetNode}

\* every node on its own, and the sequences of up to MaxNodes listed nodes
Layouts ==
    {List(<<node>>) : node \in LayoutNodes}
    \cup {List(items) : items \in UNION {[1..n -> ListedNodes] : n \in 2..MaxNodes}}

\* sample a has every file the nodes name, sample b has none of them
TreeFiles ==
    LET a == results_folder \o <<"a">>
        b == results_folder \o <<"b">>
    IN (a \o <<"data.json">> :>
            Dict(<< <<Key("k1"), Dict(<< <<Key("k2"), Text("v")>> >>)>> >>))
       @@ (a \o <<"widget.json">> :>
            Dict(<< <<Key("type"), Text("Markdown")>>, <<Key("value"), Text("hi")>> >>))
       @@ (a \o <<"thumb.jpg">> :> Bytes)
       @@ (b \o <<"note.txt">> :> Text("n"))

\* directory names: two ordinary ones, one with a quote, one with a backslash
SampleIds == {<<"a">>, <<"b">>, <<"a", DQ>>, <<BS, "a">>}

InitTree ==
    /\ fs = TreeFiles
    /\ layout \in Layouts
    /\ layout_loaded = layout
    /\ memo = <<>>
    /\ resolved = NoTree
    /\ first_out = [n \in SampleIds |-> NoTree]
    /\ path_candidates = <<>>
    /\ sample_folder = <<>>
    /\ fpe_result = NoCall
    /\ LruIdle
    /\ AppIdle

NextTree ==
    \/ \E folder_name \in SampleIds : PrepareLayoutComponents(folder_name)
    \/ MakeGradioComponents

SpecTree == InitTree /\ [][NextTree]_vars

\* the tree holds no first_path_exists node and no load_contents node
RECURSIVE IsPlain(_)
IsPlain(v) ==
    CASE v.tag = "list" -> \A i \in 1..Len(v.items) : IsPlain(v.items[i])
      [] v.tag = "dict" ->
            /\ ~HasKey(v, Key("first_path_exists"))
            /\ ~HasKey(v, Key("load_contents"))
            /\ \A i \in 1..Len(v.pairs) : IsPlain(v.pairs[i][2])
      [] OTHER -> TRUE

\* every element of every sequence of the tree is itself a sequence or a mapping
RECURSIVE NoScalarElements(_)
NoScalarElements(v) ==
    CASE v.tag = "list" ->
            \A i \in 1..Len(v.items) :
                v.items[i].tag \in {"list", "dict"} /\ NoScalarElements(v.items[i])
      [] v.tag = "dict" -> \A i \in 1..Len(v.pairs) : NoScalarElements(v.pairs[i][2])
      [] OTHER -> TRUE

\* the tree with every placeholder, in texts and in keys, replaced by the name
RECURSIVE Substituted(_, _)
Substituted(v, name) ==
    CASE v.tag = "str" -> Str(Replace(v.chars, name))
      [] v.tag = "list" -> List([i \in 1..Len(v.items) |-> Substituted(v.items[i], name)])
      [] v.tag = "dict" ->
            Dict([i \in 1..Len(v.pairs) |->
                    <<Replace(v.pairs[i][1], name), Substituted(v.pairs[i][2], name)>>])
      [] OTHER -> v

\* the name holds no character that JSON escapes
PlainName(name) == \A i \in 1..Len(name) : name[i] \notin {DQ, BS}

\* C9 as stated: for every layout tree with no first_path_exists node and no
\* load_contents node, sequences of scalars included, resolution does not fail
\* and returns the input with every placeholder replaced by the sample id.
C9_PlainTreeIdentity ==
    (resolved.done /\ ~resolved.made /\ IsPlain(layout))
        => resolved.tree = Substituted(layout, resolved.sample)

\* C9 amended: for every layout tree with no first_path_exists node and no
\* load_contents node in which every element of every sequence is itself a
\* sequence or a mapping, and every sample id free of the characters JSON
\* escapes, resolution does not fail and returns the input, order and keys
\* preserved, with every placeholder replaced by the sample id.
C9_ContainerTreeIdentity ==
    (/\ resolved.done
     /\ ~resolved.made
     /\ IsPlain(layout)
     /\ NoScalarElements(layout)
     /\ PlainName(resolved.sample))
        => resolved.tree = Substituted(layout, resolved.sample)

\* a tree of nested sequences and mappings with placeholders in a text and in
\* a key has been resolved
C9_Witness ==
    /\ resolved.done
    /\ ~resolved.made
    /\ layout = List(<<RowNode, StyledNode>>)
    /\ resolved.sample = <<"a">>
    /\ resolved.tree # layout
    /\ ~IsRaise(resolved.tree)

\* C10 as stated: resolving the same layout for the same sample again, the
\* filesystem unchanged, returns what the first resolution returned, whatever
\* prepare_layout_components and make_gradio_components calls came between,
\* and cfg.layout is still the template that was configured.
C10_ResolutionRepeatable ==
    (resolved.done /\ ~resolved.made)
        => /\ resolved.out = first_out[resolved.sample].out
           /\ layout = layout_loaded

----------------------------------------------------------------------------
(* One load_contents node on its own: SpecLoad resolves a layout made of a  *)
(* single file-backed node against files of every supported kind.           *)

MaxIndices == 2

IndexNames == {"k1", "k2", "row1", "c1"}

IndexLists ==
    {List(keys) : keys \in UNION {[1..n -> {Text(k) : k \in IndexNames}] : n \in 1..MaxIndices}}

LoadPaths == {"data.json", "table.csv", "note.txt", "thumb.jpg", "missing.json"}

LoadNodes ==
    {LoadNode(path, indices) : path \in LoadPaths, indices \in IndexLists \cup {None, List(<<>>)}}
    \cup {Dict(<< <<Key("load_contents"), Bool(TRUE)>> >>)}

\* what data.json can hold: an empty object, nested objects, an object with a
\* scalar or a null member, an array
JsonContents ==
    { Dict(<<>>),
      Dict(<< <<Key("k1"), Dict(<< <<Key("k2"), Text("v")>> >>)>> >>),
      Dict(<< <<Key("k1"), Text("v")>> >>),
      Dict(<< <<Key("k1"), None>> >>),
      List(<<Text("v")>>) }

\* what table.csv can hold: a header only, or one row labelled row1
Frames ==
    { Frame(<<>>, <<Key("c1")>>, <<>>),
      Frame(<<Key("row1")>>, <<Key("c1")>>, << <<Int_(1)>> >>) }

LoadFiles(json, frame) ==
    LET a == results_folder \o <<"a">>
    IN (a \o <<"data.json">> :> json) @@ (a \o <<"table.csv">> :> frame)
       @@ (a \o <<"note.txt">> :> Text("n")) @@ (a \o <<"thumb.jpg">> :> Bytes)

InitLoad ==
    /\ fs \in {LoadFiles(json, frame) : json \in JsonContents, frame \in Frames}
    /\ layout \in {List(<<node>>) : node \in LoadNodes}
    /\ layout_loaded = layout
    /\ memo = <<>>
    /\ resolved = NoTree
    /\ first_out = [n \in SampleIds |-> NoTree]
    /\ path_candidates = <<>>
    /\ sample_folder = <<>>
    /\ fpe_result = NoCall
    /\ LruIdle
    /\ AppIdle

NextLoad ==
    \/ PrepareLayoutComponents(<<"a">>)
    \/ MakeGradioComponents

SpecLoad == InitLoad /\ [][NextLoad]_vars

\* the node of the single-node layout and the file it names
TheNode == layout.items[1]
TheIndices == Get(TheNode, Key("indices"))
TheContents ==
    fs[resolved_load_path(TheNode, resolved.sample, results_folder)]

\* some key of the chain, from position i on, is absent where it is looked
\* up: in the mapping, the table or the row reached by the keys before it
RECURSIVE AbsentKey(_, _, _)
AbsentKey(obj, keys, i) ==
    /\ i <= Len(keys)
    /\ \/ /\ obj.tag = "dict"
          /\ \/ ~HasKey(obj, keys[i].chars)
             \/ AbsentKey(Item(obj, keys[i].chars), keys, i + 1)
       \/ /\ obj.tag \in {"frame", "series"}
          /\ \/ IsRaise(Loc(obj, keys[i]))
             \/ AbsentKey(Loc(obj, keys[i]), keys, i + 1)

\* a load_contents node with a non-empty chain of indices was resolved on a
\* JSON object or a CSV table that was loaded
IndexedLookupDone ==
    /\ resolved.done
    /\ ~resolved.made
    /\ HasKey(TheNode, Key("load_path"))
    /\ Item(TheNode, Key("load_path")).chars \in {<<"data.json">>, <<"table.csv">>}
    /\ TheIndices.tag = "list"
    /\ TheIndices.items # <<>>
    /\ TheContents.tag \in {"dict", "frame"}

\* C5: a key or row label absent at any position of the chain makes the node
\* resolve to None and never raises, for a JSON object and for a non-empty
\* CSV table alike; an empty table resolves to None before any lookup.
C5_AbsentKeyIsNone ==
    IndexedLookupDone =>
        /\ (TheContents.tag = "frame" /\ FrameEmpty(TheContents))
                => resolved.tree = List(<<None>>)
        /\ AbsentKey(TheContents, TheIndices.items, 1)
                => resolved.tree = List(<<None>>)

----------------------------------------------------------------------------
(* The file loader on its own: SpecLRU loads one watched file again and     *)
(* again, with loads of other files, each a new path, in between, while the *)
(* watched file may be rewritten on disk.                                   *)

MaxOthers == 129

WatchedPath == results_folder \o <<"a", "data.json">>
OtherPath(k) == results_folder \o <<"a", "note" \o ToString(k) \o ".txt">>

WatchedContents == {Dict(<< <<Key("k1"), Text("v")>> >>), Dict(<< <<Key("k1"), Text("w")>> >>)}

PathIdle ==
    /\ path_candidates = <<>>
    /\ sample_folder = <<>>
    /\ fpe_result = NoCall

InitLRU ==
    /\ fs = [p \in {WatchedPath} \cup {OtherPath(k) : k \in 1..(MaxOthers + 1)} |->
                IF p = WatchedPath
                THEN Dict(<< <<Key("k1"), Text("v")>> >>)
                ELSE Text("n")]
    /\ memo = <<>>
    /\ loaded = NoCall
    /\ last_read = NoCall
    /\ others = 0
    /\ since = 0
    /\ layout = List(<<>>)
    /\ layout_loaded = layout
    /\ resolved = NoTree
    /\ first_out = <<>>
    /\ PathIdle
    /\ AppIdle

\* load_file(WatchedPath)
LoadWatched ==
    \E r \in {load_file(fs, memo, WatchedPath)} :
       /\ loaded' = [done |-> TRUE, path |-> WatchedPath, val |-> r.val,
                     read |-> r.read, since |-> since,
                     before |-> last_read.done]
       /\ memo' = r.memo
       /\ last_read' = IF r.read /\ ~IsRaise(r.val)
                       THEN [done |-> TRUE, val |-> r.val]
                       ELSE last_read
       /\ since' = 0
       /\ UNCHANGED <<fs, others, layout, layout_loaded, resolved, first_out, pathVars, appVars>>

\* load_file of a path that was never loaded before
LoadOther ==
    /\ others < MaxOthers
    /\ \E r \in {load_file(fs, memo, OtherPath(others + 1))} :
          /\ loaded' = [done |-> TRUE, path |-> OtherPath(others + 1), val |-> r.val,
                        read |-> r.read, since |-> since, before |-> FALSE]
          /\ memo' = r.memo
    /\ others' = others + 1
    /\ since' = since + 1
    /\ UNCHANGED <<fs, last_read, layout, layout_loaded, resolved, first_out, pathVars, appVars>>

\* the pipeline rewrites the watched file
RewriteWatched ==
    /\ \E c \in WatchedContents :
          /\ c # fs[WatchedPath]
          /\ fs' = [fs EXCEPT ![WatchedPath] = c]
    /\ UNCHANGED <<treeVars, lruVars, pathVars, appVars>>

NextLRU == LoadWatched \/ LoadOther \/ RewriteWatched

SpecLRU == InitLRU /\ [][NextLRU]_vars

\* the watched path was loaded again after a call that read and returned it
LoadedAgain ==
    /\ loaded.done
    /\ loaded.path = WatchedPath
    /\ loaded.before

\* C8 as stated: once load_file has returned content for a path, every later
\* call for that path returns the same content without reading the file,
\* however many other paths were loaded in between and whatever has changed
\* on disk.
C8_NeverEvicted ==
    LoadedAgain => (loaded.val = last_read.val /\ ~loaded.read)

\* C8 amended: the memo holds the 128 most recently used paths; once
\* load_file has read and returned content for a path, a later call for that
\* path returns the same content without reading the file, whatever has
\* changed on disk, as long as fewer than 128 other distinct paths were loaded
\* since the path was last loaded.
C8_StaleWithinMaxsize ==
    (LoadedAgain /\ loaded.since < maxsize)
        => (loaded.val = last_read.val /\ ~loaded.read)

\* after 128 other distinct paths the entry is gone and the file is read again
C8_ReadAgainAfterMaxsize ==
    (LoadedAgain /\ loaded.since >= maxsize) => loaded.read

\* the watched file is served from the memo although it was rewritten on disk
\* and 127 other paths were loaded since its last use
C8_Witness ==
    /\ LoadedAgain
    /\ loaded.since = maxsize - 1
    /\ ~loaded.read
    /\ loaded.val # fs[WatchedPath]

----------------------------------------------------------------------------
(* Backend, backend.py: sample discovery, the discovery cache file and      *)
(* pagination.                                                              *)

Dirs(items) == [tag |-> "dirs", items |-> items]
File(text) == [tag |-> "file", text |-> text]

\* the names that occur in paths, in the order of Python's str comparison
NameOrder == <<Root, "a", "b", "c", "data.json", "home", "r", "sub", "thumb.jpg",
               "thumb.png">>

Rank(name) == CHOOSE i \in 1..Len(NameOrder) : NameOrder[i] = name

Min2(a, b) == IF a < b THEN a ELSE b
Max2(a, b) == IF a > b THEN a ELSE b

\* p < q for two Path objects: their parts compare like tuples of str
PathLess(p, q) ==
    \E k \in 1..(Min2(Len(p), Len(q)) + 1) :
        /\ \A j \in 1..(k - 1) : p[j] = q[j]
        /\ IF k > Len(p) THEN k <= Len(q)
           ELSE k <= Len(q) /\ Rank(p[k]) < Rank(q[k])

\* sorted() of distinct paths
RECURSIVE Sorted(_)
Sorted(S) ==
    IF S = {} THEN <<>>
    ELSE LET least == CHOOSE p \in S : \A q \in S \ {p} : PathLess(p, q)
         IN <<least>> \o Sorted(S \ {least})

\* Path.iterdir(): the entries of a directory
iterdir(f, dir) ==
    {SubSeq(q, 1, Len(dir) + 1) : q \in {q \in DOMAIN f : IsPrefix(dir, q) /\ Len(q) > Len(dir)}}

\* Path.rglob(pattern) for a pattern without wildcards: every path below the
\* directory that ends with the pattern's parts
rglob(f, dir, pattern) ==
    LET below == UNION {{SubSeq(q, 1, n) : n \in (Len(dir) + 1)..Len(q)} :
                        q \in {q \in DOMAIN f : IsPrefix(dir, q)}}
    IN {p \in below :
          /\ Len(p) - Len(dir) >= Len(pattern)
          /\ SubSeq(p, Len(p) - Len(pattern) + 1, Len(p)) = pattern}

\* Path.as_posix(): the text of a path
as_posix(p) ==
    LET names == IF IsAbsolute(p) THEN Tail(p) ELSE p
    IN (IF IsAbsolute(p) THEN <<SEP>> ELSE <<>>)
       \o Flatten([i \in 1..Len(names) |->
                     IF i > 1 THEN <<SEP, names[i]>> ELSE <<names[i]>>])

\* backend.py:61-66
all_samples_folders(f, results_path, filter) ==
    IF filter # None
    THEN LET all_samples == Sorted(rglob(f, results_path, PathOf(filter.chars)))
         IN [i \in 1..Len(all_samples) |->
                Join(results_path, <<all_samples[i][Len(results_path) + 1]>>)]
    ELSE Sorted(iterdir(f, results_path))

\* a slip: the cache file gets the names of the folders, not their paths
cache_text_names(folders) ==
    Dumps(List([i \in 1..Len(folders) |-> Str(<<folders[i][Len(folders[i])]>>)]))

\* backend.py:69: json.dump of the as_posix texts
cache_text(folders) ==
    Dumps(List([i \in 1..Len(folders) |-> Str(as_posix(folders[i]))]))

\* backend.py:42-43: [Path(p) for p in json.load(f)]
load_cache(text) ==
    LET v == Loads(text)
    IN IF IsRaise(v) THEN [ok |-> FALSE, exc |-> v.exc]
       ELSE IF v.tag # "list" \/ \E i \in 1..Len(v.items) : v.items[i].tag # "str"
       THEN [ok |-> FALSE, exc |-> "TypeError"]
       ELSE [ok |-> TRUE,
             dirs |-> Dirs([i \in 1..Len(v.items) |-> PathOf(v.items[i].chars)])]

\* a slip: a pass that fails empties the list
discover_all_samples_clearing(f, c, dirs, file) ==
    IF c.results_folder = None \/ ~PathExistsIn(f, c.results_folder.parts)
    THEN [ok |-> FALSE, dirs |-> Dirs(<<>>), file |-> file]
    ELSE LET folders == all_samples_folders(f, c.results_folder.parts,
                                            c.filter_results_by_existance_of)
         IN [ok |-> TRUE, dirs |-> Dirs(folders), file |-> File(cache_text(folders))]

\* discover_all_samples, backend.py:47-71, on the filesystem f with the
\* configuration c: whether the pass got past its two checks, the list and
\* the cache file afterwards
discover_all_samples(f, c, dirs, file) ==
    IF c.results_folder = None THEN [ok |-> FALSE, dirs |-> dirs, file |-> file]
    ELSE IF ~PathExistsIn(f, c.results_folder.parts)
    THEN [ok |-> FALSE, dirs |-> dirs, file |-> file]
    ELSE LET folders == all_samples_folders(f, c.results_folder.parts,
                                            c.filter_results_by_existance_of)
         IN [ok |-> TRUE, dirs |-> Dirs(folders), file |-> File(cache_text(folders))]

\* list[start:stop]
Clamp(i, n) == IF i < 0 THEN Max2(n + i, 0) ELSE Min2(i, n)

Slice(s, start, stop) ==
    LET lo == Clamp(start, Len(s))
        hi == Clamp(stop, Len(s))
    IN IF lo >= hi THEN <<>> ELSE SubSeq(s, lo + 1, hi)

\* Path.name
Name(p) == p[Len(p)]

\* backend.py:87-89: the thumbnail of one sample
thumbnail_of(f, thumbnail_path, sample_dir) ==
    IF thumbnail_path.tag = "str" THEN thumbnail_path
    ELSE IF thumbnail_path.tag # "dict" THEN Raise("TypeError")
    ELSE IF ~HasKey(thumbnail_path, Key("first_path_exists")) THEN Raise("KeyError")
    ELSE first_path_exists_node(Item(thumbnail_path, Key("first_path_exists")),
                                sample_dir, f)

\* a slip: the slice ends one entry late
get_samples_metadata_inclusive(f, dirs, thumbnail_path, offset, limit) ==
    IF dirs = Unset THEN <<>>
    ELSE LET part == Slice(dirs.items, offset, offset + limit + 1)
             thumbs == [i \in 1..Len(part) |-> thumbnail_of(f, thumbnail_path, part[i])]
         IN IF \E i \in 1..Len(part) : IsRaise(thumbs[i]) THEN <<>>
            ELSE [i \in 1..Len(part) |->
                    [id |-> Name(part[i]), image |-> <<thumbs[i], Name(part[i])>>]]

\* get_samples_metadata, backend.py:73-95: the try block spans the whole
\* loop, so an exception anywhere (the missing attribute, one sample's
\* thumbnail) makes the call return []
get_samples_metadata(f, dirs, thumbnail_path, offset, limit) ==
    IF dirs = Unset THEN <<>>
    ELSE LET part == Slice(dirs.items, offset, offset + limit)
             thumbs == [i \in 1..Len(part) |-> thumbnail_of(f, thumbnail_path, part[i])]
         IN IF \E i \in 1..Len(part) : IsRaise(thumbs[i]) THEN <<>>
            ELSE [i \in 1..Len(part) |->
                    [id |-> Name(part[i]), image |-> <<thumbs[i], Name(part[i])>>]]

----------------------------------------------------------------------------
(* The UI's handlers, ui.py.  samples_imgs and samples_ids are the images   *)
(* and the ids of samples_state: load_more extends the three together.      *)

\* load_more, ui.py:98-118: the page and the two states it returns
load_more(f, dirs, thumbnail_path, samples, offset, limit) ==
    LET more == get_samples_metadata(f, dirs, thumbnail_path, offset, limit)
    IN [more |-> more, samples_state |-> samples \o more,
        offset_state |-> offset + Len(more)]

Range(s) == {s[i] : i \in 1..Len(s)}

\* create_samples_rows, ui.py:66-77, from sample i on: nothing catches what
\* a sample's resolution or construction raises, so the loop ends there
RECURSIVE create_samples_rows(_, _, _, _, _, _, _)
create_samples_rows(samples, i, rows, cfg_layout, c, f, m) ==
    IF i > Len(samples) THEN [rows |-> rows, memo |-> m, err |-> ""]
    ELSE IF samples[i].id \in Range(rows)
    THEN create_samples_rows(samples, i + 1, rows, cfg_layout, c, f, m)
    ELSE LET r == prepare_layout_components(cfg_layout, <<samples[i].id>>,
                                            c.results_folder.parts, f, m)
             g == make_gradio_components(r.val, r.memo)
         IN IF IsRaise(r.val) THEN [rows |-> rows, memo |-> r.memo, err |-> r.val.exc]
            ELSE IF g.err # "" THEN [rows |-> rows, memo |-> g.memo, err |-> g.err]
            ELSE create_samples_rows(samples, i + 1, Append(rows, samples[i].id),
                                     cfg_layout, c, f, g.memo)

----------------------------------------------------------------------------
(* The viewer: Spec starts a viewer on a configuration, pages through the   *)
(* samples, renders them and rescans, while the pipeline writes and removes *)
(* results; the process can be restarted on the same cache folder.          *)

MaxLimit == 2

Thumbnails ==
    { Text("thumb.png"),
      Dict(<< <<Key("first_path_exists"),
                List(<<Text("thumb.png"), Text("thumb.jpg")>>)>> >>) }

\* a viewer without a results folder, and the viewers of the results folder
\* with and without a filter, for either form of thumbnail
Configs ==
    {[results_folder |-> None, filter_results_by_existance_of |-> None,
      thumbnail_path |-> Text("thumb.png")]}
    \cup {[results_folder |-> PathV(results_folder),
           filter_results_by_existance_of |-> flt, thumbnail_path |-> th] :
            flt \in {None, Text("data.json")}, th \in Thumbnails}

\* every sample shows a heading and the contents of its data.json
ViewerLayout == List(<<MarkdownNode, JsonNode>>)

\* what is on disk apart from the results
BaseFiles == <<Root, "home", "cfg.yaml">> :> Bytes

\* the files of a finished pipeline run: sample a has data.json at two
\* depths, sample b only a thumbnail, sample c a data.json
SampleFiles ==
    [p \in {results_folder \o <<"a", "data.json">>,
            results_folder \o <<"a", "sub", "data.json">>,
            results_folder \o <<"b", "thumb.png">>,
            results_folder \o <<"c", "data.json">>} |->
        IF Name(p) = "thumb.png" THEN Bytes
        ELSE Dict(<< <<Key("k1"), Text(p[3])>> >>)]

\* the files of a run that is half way
PartialFiles ==
    [p \in {results_folder \o <<"a", "data.json">>,
            results_folder \o <<"b", "thumb.png">>} |-> SampleFiles[p]]

\* the results after they were moved away
ArchivedFiles == <<Root, "home", "r", "a", "data.json">> :> Bytes

Init ==
    /\ fs \in {BaseFiles, SampleFiles @@ BaseFiles}
    /\ cfg \in Configs
    /\ cache_file = NoFile
    /\ constructed = FALSE
    /\ all_samples_dirs = Unset
    /\ last_pass = NoCall
    /\ offset_state = 0
    /\ samples_state = <<>>
    /\ samples_gradio = <<>>
    /\ dummy_rerender_text = ""
    /\ last_page = NoCall
    /\ last_render = NoCall
    /\ in_between = FALSE
    /\ writer = [pc |-> "idle"]
    /\ reader = NoCall
    /\ layout = ViewerLayout
    /\ layout_loaded = layout
    /\ memo = <<>>
    /\ resolved = NoTree
    /\ first_out = <<>>
    /\ PathIdle
    /\ LruIdle

\* Backend.__init__, backend.py:23-45, in build_demo (ui.py:27): the list
\* comes from the cache file if there is one, from a discovery pass if not
BackendInit ==
    /\ ~constructed
    /\ writer.pc = "idle"
    /\ IF cache_file # NoFile
       THEN \E r \in {load_cache(cache_file.text)} :
               /\ r.ok
               /\ all_samples_dirs' = r.dirs
               /\ UNCHANGED <<cache_file, last_pass>>
       ELSE \E r \in {discover_all_samples(fs, cfg, all_samples_dirs, cache_file)} :
               /\ all_samples_dirs' = r.dirs
               /\ cache_file' = r.file
               /\ last_pass' = [done |-> TRUE, at |-> "init", ok |-> r.ok,
                                before |-> all_samples_dirs, fs |-> fs]
    /\ constructed' = TRUE
    /\ UNCHANGED <<fs, cfg, uiVars, writer, reader, pathVars, treeVars, lruVars>>

\* search_samples_btn.click, ui.py:136: discover_all_samples as one step
Rescan ==
    /\ constructed
    /\ writer.pc = "idle"
    /\ \E r \in {discover_all_samples(fs, cfg, all_samples_dirs, cache_file)} :
          /\ all_samples_dirs' = r.dirs
          /\ cache_file' = r.file
          /\ last_pass' = [done |-> TRUE, at |-> "rescan", ok |-> r.ok,
                           before |-> all_samples_dirs, fs |-> fs]
    /\ in_between' = (in_between \/ last_page.done)
    /\ UNCHANGED <<fs, cfg, constructed, offset_state, samples_state, samples_gradio,
                   dummy_rerender_text, last_page, last_render, writer, reader,
                   pathVars, treeVars, lruVars>>

\* load_more_btn.click, ui.py:120-133, with the slider at `limit`
LoadMore(limit) ==
    /\ constructed
    /\ \E r \in {load_more(fs, all_samples_dirs, cfg.thumbnail_path,
                            samples_state, offset_state, limit)} :
          /\ samples_state' = r.samples_state
          /\ offset_state' = r.offset_state
          /\ last_page' = [done |-> TRUE, offset |-> offset_state, limit |-> limit,
                           result |-> r.more, dirs |-> all_samples_dirs, fs |-> fs,
                           pass |-> last_pass,
                           fixed |-> (~last_page.done
                                        \/ (last_page.fixed /\ last_page.limit = limit))]
    /\ dummy_rerender_text' = "rerender"
    /\ UNCHANGED <<fs, backendVars, samples_gradio, last_render, in_between, writer,
                   reader, pathVars, treeVars, lruVars>>

\* render_samples on "rerender", ui.py:45-64: create_samples_rows on the
\* samples loaded so far; the text box is reset by its own handler (line 43)
RenderSamples ==
    /\ constructed
    /\ dummy_rerender_text = "rerender"
    /\ \E r \in {create_samples_rows(samples_state, 1, samples_gradio, layout, cfg, fs,
                                      memo)} :
          /\ samples_gradio' = r.rows
          /\ memo' = r.memo
          /\ last_render' = [done |-> TRUE, samples |-> samples_state, rows |-> r.rows,
                             err |-> r.err, fs |-> fs]
    /\ dummy_rerender_text' = ""
    /\ UNCHANGED <<fs, backendVars, offset_state, samples_state, last_page, in_between,
                   writer, reader, pathVars, layout, layout_loaded, resolved, first_out,
                   lruVars>>

\* the pipeline gets half way, then finishes
WriteFiles ==
    /\ fs \in {BaseFiles, PartialFiles @@ BaseFiles}
    /\ fs' = IF fs = BaseFiles THEN PartialFiles @@ BaseFiles
             ELSE SampleFiles @@ BaseFiles
    /\ UNCHANGED <<appVars, pathVars, treeVars, lruVars>>

\* the results folder is moved away for good
RemoveResults ==
    /\ PathExists(results_folder)
    /\ fs' = ArchivedFiles @@ BaseFiles
    /\ UNCHANGED <<appVars, pathVars, treeVars, lruVars>>

\* the viewer process ends and a new one starts with the same configuration
\* and cache folder
Restart ==
    /\ constructed
    /\ writer.pc = "idle"
    /\ constructed' = FALSE
    /\ all_samples_dirs' = Unset
    /\ last_pass' = NoCall
    /\ offset_state' = 0
    /\ samples_state' = <<>>
    /\ samples_gradio' = <<>>
    /\ dummy_rerender_text' = ""
    /\ last_page' = NoCall
    /\ last_render' = NoCall
    /\ in_between' = FALSE
    /\ memo' = <<>>
    /\ UNCHANGED <<fs, cfg, cache_file, writer, reader, pathVars, layout, layout_loaded,
                   resolved, first_out, lruVars>>

Next ==
    \/ BackendInit
    \/ Rescan
    \/ \E limit \in 1..MaxLimit : LoadMore(limit)
    \/ RenderSamples
    \/ WriteFiles
    \/ RemoveResults
    \/ Restart

Spec == Init /\ [][Next]_vars

\* a list as the pages see it: no list reads as an empty one
DiscoveredListOf(dirs) == IF dirs = Unset THEN <<>> ELSE dirs.items

DiscoveredList == DiscoveredListOf(all_samples_dirs)

Ids(samples) == [i \in 1..Len(samples) |-> samples[i].id]
Names(dirs) == [i \in 1..Len(dirs) |-> Name(dirs[i])]

\* C2: from offset 0, with a positive limit and the offset advanced by the
\* number of entries returned, and no rescan in between, the pages returned
\* so far are together the first offset_state entries of the discovered
\* list, in order, none missing and none repeated; each page is the next
\* entries of the list, at most `limit` of them; a page that comes back
\* short or empty means the list is complete, and at the end of the list
\* every page is empty.
C2_PagesCoverList ==
    (constructed /\ ~in_between) =>
        /\ offset_state <= Len(DiscoveredList)
        /\ Ids(samples_state) = Names(SubSeq(DiscoveredList, 1, offset_state))
        /\ last_page.done =>
              /\ Ids(last_page.result)
                    = Names(SubSeq(DiscoveredList, last_page.offset + 1,
                                   Min2(last_page.offset + last_page.limit,
                                        Len(DiscoveredList))))
              /\ offset_state = last_page.offset + Len(last_page.result)
              /\ Len(last_page.result) < last_page.limit
                    => Ids(samples_state) = Names(DiscoveredList)
              /\ last_page.offset >= Len(DiscoveredList) => last_page.result = <<>>

\* samples a, b, c with the limit fixed at 2: the pages [a, b], [c], []
C2_Witness ==
    /\ constructed
    /\ ~in_between
    /\ Names(DiscoveredList) = <<"a", "b", "c">>
    /\ last_page.done
    /\ last_page.fixed
    /\ last_page.limit = 2
    /\ last_page.offset = 3
    /\ last_page.result = <<>>
    /\ Ids(samples_state) = <<"a", "b", "c">>

\* a discovery pass ran while results_folder was unset or missing
FailedPass == last_pass.done /\ ~last_pass.ok

\* a page was requested after the last discovery pass
PageAfterPass == last_page.done /\ last_page.pass = last_pass

\* C3 as stated: after a discovery pass that ran while results_folder was
\* unset or missing, the discovered list is empty and every later page is
\* empty, also when an earlier pass had found samples.
C3_FailedPassEmptiesList ==
    FailedPass =>
        /\ DiscoveredList = <<>>
        /\ PageAfterPass => last_page.result = <<>>

\* C3 amended: a discovery pass that runs while results_folder is unset or
\* missing leaves the list as it was.  At construction there is no list and
\* every page is empty; on a rescan the list of the last successful pass, or
\* the one loaded from the cache file, stays and the pages go on serving it.
C3_FailedPassKeepsList ==
    FailedPass =>
        /\ all_samples_dirs = last_pass.before
        /\ last_pass.at = "init" => all_samples_dirs = Unset
        /\ PageAfterPass =>
              Ids(last_page.result)
                  = Names(Slice(DiscoveredList, last_page.offset,
                                last_page.offset + last_page.limit))

\* a rescan failed after samples had been found, and a page still lists them
C3_Witness ==
    /\ FailedPass
    /\ last_pass.at = "rescan"
    /\ DiscoveredList # <<>>
    /\ PageAfterPass
    /\ last_page.result # <<>>

\* the sample directories that hold a match of the filter on the filesystem f
MatchingSampleDirs(f) ==
    {Join(cfg.results_folder.parts, <<p[Len(cfg.results_folder.parts) + 1]>>) :
        p \in rglob(f, cfg.results_folder.parts,
                    PathOf(cfg.filter_results_by_existance_of.chars))}

\* C4: with a filter set, the list a discovery pass produces holds every
\* sample directory with a match exactly once, in sorted order, however many
\* paths inside it match.
C4_FilterListsEachSampleOnce ==
    (last_pass.done /\ last_pass.ok /\ cfg.filter_results_by_existance_of # None) =>
        /\ Range(all_samples_dirs.items) = MatchingSampleDirs(last_pass.fs)
        /\ \A i \in 1..(Len(all_samples_dirs.items) - 1) :
              PathLess(all_samples_dirs.items[i], all_samples_dirs.items[i + 1])

\* the sample's layout resolves and its components are built when it is
\* handled on its own
RendersAlone(f, id) ==
    LET r == prepare_layout_components(layout, <<id>>, cfg.results_folder.parts, f, <<>>)
    IN ~IsRaise(r.val) /\ make_gradio_components(r.val, r.memo).err = ""

\* C6: an error in one sample of a page batch stays with that sample: every
\* other sample of the slice is in the page get_samples_metadata returns,
\* and every sample that renders on its own has its column after
\* create_samples_rows.
C6_ErrorsConfinedToSample ==
    /\ last_page.done =>
          \A i \in 1..Len(Slice(DiscoveredListOf(last_page.dirs), last_page.offset,
                                last_page.offset + last_page.limit)) :
              LET dir == Slice(DiscoveredListOf(last_page.dirs), last_page.offset,
                               last_page.offset + last_page.limit)[i]
              IN ~IsRaise(thumbnail_of(last_page.fs, cfg.thumbnail_path, dir))
                    => Name(dir) \in Range(Ids(last_page.result))
    /\ last_render.done =>
          \A i \in 1..Len(last_render.samples) :
              RendersAlone(last_render.fs, last_render.samples[i].id)
                  => last_render.samples[i].id \in Range(last_render.rows)

----------------------------------------------------------------------------
(* The cache file under concurrency: SpecConc runs discover_all_samples in  *)
(* the steps in which it touches the cache file (backend.py:68-71: open("w")*)
(* truncates it, json.dump writes the text piece by piece, leaving the with *)
(* block flushes the rest) while another process constructs a Backend on    *)
(* the same cache folder and loads the file (backend.py:41-43).             *)

\* a viewer that was started, with no cache file yet, while the pipeline was
\* half way: its construction has discovered the samples and written the
\* cache file
InitConc ==
    /\ fs = PartialFiles @@ BaseFiles
    /\ cfg \in {c \in Configs : c.results_folder # None}
    /\ LET r == discover_all_samples(fs, cfg, Unset, NoFile)
       IN /\ cache_file = r.file
          /\ all_samples_dirs = r.dirs
          /\ last_pass = [done |-> TRUE, at |-> "init", ok |-> r.ok, before |-> Unset,
                          fs |-> fs]
    /\ constructed = TRUE
    /\ offset_state = 0
    /\ samples_state = <<>>
    /\ samples_gradio = <<>>
    /\ dummy_rerender_text = ""
    /\ last_page = NoCall
    /\ last_render = NoCall
    /\ in_between = FALSE
    /\ writer = [pc |-> "idle"]
    /\ reader = NoCall
    /\ layout = ViewerLayout
    /\ layout_loaded = layout
    /\ memo = <<>>
    /\ resolved = NoTree
    /\ first_out = <<>>
    /\ PathIdle
    /\ LruIdle

\* lines 52-68: a rescan gets past its checks, lists the folders and opens
\* the cache file for writing, which leaves it empty
ScanOpen ==
    /\ constructed
    /\ writer.pc = "idle"
    /\ \E r \in {discover_all_samples(fs, cfg, all_samples_dirs, cache_file)} :
          /\ r.ok
          /\ writer' = [pc |-> "writing", text |-> r.file.text, dirs |-> r.dirs,
                        prev |-> cache_file, fs |-> fs]
    /\ cache_file' = File(<<>>)
    /\ UNCHANGED <<fs, cfg, constructed, all_samples_dirs, last_pass, uiVars, reader,
                   pathVars, treeVars, lruVars>>

\* line 69: some more of the text reaches the file
ScanWrite ==
    /\ writer.pc = "writing"
    /\ \E n \in (Len(cache_file.text) + 1)..Len(writer.text) :
          cache_file' = File(SubSeq(writer.text, 1, n))
    /\ UNCHANGED <<fs, cfg, constructed, all_samples_dirs, last_pass, uiVars, writer,
                   reader, pathVars, treeVars, lruVars>>

\* lines 69-71: the file is closed with all of the text in it and the list
\* is assigned
ScanClose ==
    /\ writer.pc = "writing"
    /\ cache_file' = File(writer.text)
    /\ all_samples_dirs' = writer.dirs
    /\ last_pass' = [done |-> TRUE, at |-> "rescan", ok |-> TRUE,
                     before |-> all_samples_dirs, fs |-> writer.fs]
    /\ writer' = [pc |-> "idle"]
    /\ UNCHANGED <<fs, cfg, constructed, uiVars, reader, pathVars, treeVars, lruVars>>

\* what the cache file holds when nobody is writing it
ListIn(file) == IF file = NoFile THEN [ok |-> FALSE, exc |-> "FileNotFoundError"]
                ELSE load_cache(file.text)

\* lines 41-43 in another process: the cache file exists and is loaded
ReaderInit ==
    /\ cache_file # NoFile
    /\ reader' = [done |-> TRUE, loaded |-> load_cache(cache_file.text),
                  prev |-> ListIn(IF writer.pc = "writing" THEN writer.prev
                                  ELSE cache_file),
                  next |-> ListIn(IF writer.pc = "writing" THEN File(writer.text)
                                  ELSE cache_file)]
    /\ UNCHANGED <<fs, backendVars, uiVars, writer, pathVars, treeVars, lruVars>>

NextConc ==
    \/ ScanOpen
    \/ ScanWrite
    \/ ScanClose
    \/ ReaderInit
    \/ WriteFiles
    \/ RemoveResults

SpecConc == InitConc /\ [][NextConc]_vars

\* C7: a Backend that loads the cache file while a rescan writes it gets the
\* complete previous list or the complete new list, never an empty or partly
\* written file.
C7_CacheReplacedAtomically ==
    reader.done =>
        /\ reader.loaded.ok
        /\ reader.loaded \in {reader.prev, reader.next}

----------------------------------------------------------------------------
(* The list in memory and the list in the cache file, in the viewer (Spec) *)

\* the list the cache file holds: none when there is no file
StoredList ==
    IF cache_file = NoFile THEN Unset
    ELSE LET r == load_cache(cache_file.text)
         IN IF r.ok THEN r.dirs ELSE [tag |-> "unreadable", exc |-> r.exc]

\* C13: in a running viewer the list in memory is the list in the cache
\* file, after construction and after every rescan and page request: a
\* rescan that succeeds leaves both with what it found, one that fails
\* leaves both as they were, a page request changes neither, and a Backend
\* constructed while the cache file exists holds the file's list without a
\* discovery pass.
C13_ListMatchesCache ==
    constructed =>
        /\ all_samples_dirs = StoredList
        /\ (last_pass.done /\ last_pass.ok) =>
              all_samples_dirs
                 = Dirs(all_samples_folders(last_pass.fs, cfg.results_folder.parts,
                                            cfg.filter_results_by_existance_of))
        /\ FailedPass => all_samples_dirs = last_pass.before
        /\ PageAfterPass => all_samples_dirs = last_page.dirs
        /\ ~last_pass.done => cache_file # NoFile

\* a viewer started on an existing cache file serves pages of the file's
\* list, which is no longer what a discovery pass would find
C13_Witness ==
    /\ constructed
    /\ ~last_pass.done
    /\ last_page.done
    /\ last_page.result # <<>>
    /\ all_samples_dirs = StoredList
    /\ PathExists(cfg.results_folder.parts)
    /\ all_samples_dirs
          # Dirs(all_samples_folders(fs, cfg.results_folder.parts,
                                     cfg.filter_results_by_existance_of))

----------------------------------------------------------------------------
(* Pagination on its own: SpecPage calls Backend.get_samples_metadata with  *)
(* any offset, negative ones included, on the lists a viewer comes to hold. *)

MaxOffset == 4

\* Backend.get_samples_metadata, backend.py:73-95, called with an offset and
\* a limit of the caller's choice
GetSamplesMetadata(offset, limit) ==
    /\ constructed
    /\ \E r \in {get_samples_metadata(fs, all_samples_dirs, cfg.thumbnail_path,
                                       offset, limit)} :
          last_page' = [done |-> TRUE, offset |-> offset, limit |-> limit,
                        result |-> r, dirs |-> all_samples_dirs, fs |-> fs,
                        pass |-> last_pass, fixed |-> FALSE]
    /\ UNCHANGED <<fs, backendVars, offset_state, samples_state, samples_gradio,
                   dummy_rerender_text, last_render, in_between, writer, reader,
                   pathVars, treeVars, lruVars>>

NextPage ==
    \/ BackendInit
    \/ Rescan
    \/ \E offset \in (0 - MaxOffset)..MaxOffset, limit \in 1..MaxLimit :
          GetSamplesMetadata(offset, limit)
    \/ WriteFiles
    \/ RemoveResults

SpecPage == Init /\ [][NextPage]_vars

\* the entries of a list at the positions offset <= i < offset + limit,
\* counted from 0; none when the offset is outside the list
EntriesAt(list, offset, limit) ==
    IF offset < 0 \/ offset >= Len(list) THEN <<>>
    ELSE SubSeq(list, offset + 1, Min2(offset + limit, Len(list)))

\* C11: get_samples_metadata(offset, limit) returns one descriptor for each
\* entry of the discovered list at the positions offset <= i < offset + limit,
\* in list order, and an empty list for every offset outside the list, at or
\* past its length or negative; it never raises (every call comes back with
\* a list).
C11_PageIsSliceOrEmpty ==
    last_page.done =>
        Ids(last_page.result)
            = Names(EntriesAt(DiscoveredListOf(last_page.dirs), last_page.offset,
                              last_page.limit))

----------------------------------------------------------------------------
(* File-backed nodes on their own: SpecNode calls load_layout_files on one  *)
(* load_contents node after another, with relative and absolute paths, with *)
(* and without indices, sharing one memo, while files of the sample are     *)
(* removed.                                                                 *)

\* the texts a load_path can hold: files of the sample by their relative and
\* their absolute path, files that are not there, a file outside the results
NodePaths ==
    { <<"data.json">>, <<"table.csv">>, <<"note.txt">>, <<"thumb.jpg">>,
      <<"missing.json">>, <<"missing.bin">>,
      <<SEP, "r", SEP, "a", SEP, "note.txt">>,
      <<SEP, "home", SEP, "cfg.yaml">> }

NodeIndices == {None, List(<<>>), List(<<Text("k1")>>)}

\* the file-backed nodes, with and without a load_path
FileBackedNodes ==
    { Dict(<< <<Key("load_contents"), Bool(TRUE)>>, <<Key("load_path"), Str(chars)>> >>
           \o (IF indices = None THEN <<>> ELSE << <<Key("indices"), indices>> >>)) :
        chars \in NodePaths, indices \in NodeIndices }
    \cup { Dict(<< <<Key("load_contents"), Bool(TRUE)>> >>
                \o (IF indices = None THEN <<>> ELSE << <<Key("indices"), indices>> >>)) :
             indices \in NodeIndices }

\* data.json holds an object or an array
NodeFiles ==
    { LoadFiles(json, Frame(<<Key("k1")>>, <<Key("c1")>>, << <<Int_(1)>> >>)) @@ BaseFiles :
        json \in { Dict(<< <<Key("k1"), Text("v")>> >>), List(<<Text("v")>>) } }

InitNode ==
    /\ fs \in NodeFiles
    /\ layout = List(<<>>)
    /\ layout_loaded = layout
    /\ memo = <<>>
    /\ resolved = NoTree
    /\ first_out = <<>>
    /\ path_candidates = <<>>
    /\ sample_folder = <<>>
    /\ fpe_result = NoCall
    /\ LruIdle
    /\ AppIdle

\* load_layout_files(data, "a", results_folder), layout_decode.py:48-115
LoadLayoutFiles(data) ==
    /\ \E r \in {load_layout_files(data, <<"a">>, results_folder, fs, memo)} :
          /\ resolved' = [done |-> TRUE, sample |-> <<"a">>, tree |-> r.val,
                          out |-> IF IsRaise(r.val) THEN r.val ELSE Deref(r.memo, r.val),
                          made |-> FALSE, before |-> memo, fs |-> fs]
          /\ memo' = r.memo
    /\ layout' = data
    /\ layout_loaded' = data
    /\ UNCHANGED <<fs, first_out, pathVars, lruVars, appVars>>

\* the files of the sample that come and go
RemovableFiles == {results_folder \o <<"a", name>> : name \in {"data.json", "note.txt"}}

\* a file of the sample is removed
RemoveFile(p) ==
    /\ p \in DOMAIN fs
    /\ fs' = [q \in DOMAIN fs \ {p} |-> fs[q]]
    /\ UNCHANGED <<treeVars, pathVars, lruVars, appVars>>

NextNode ==
    \/ \E data \in FileBackedNodes : LoadLayoutFiles(data)
    \/ \E p \in RemovableFiles : RemoveFile(p)

SpecNode == InitNode /\ [][NextNode]_vars

\* the path the node's load_path stands for: joined with
\* results_folder/sample_id unless it is absolute
NodePath ==
    LET load_path == PathOf(Item(layout, Key("load_path")).chars)
    IN IF IsAbsolute(load_path) THEN load_path
       ELSE results_folder \o resolved.sample \o load_path

NodeHasIndices ==
    /\ HasKey(layout, Key("indices"))
    /\ Item(layout, Key("indices")) # List(<<>>)

\* C12: a node with load_contents true is checked in a fixed order and the
\* first check that fails is the one reported: no load_path gives MissingField
\* (ValueError); else a resolved path that does not exist gives FileNotFound
\* (FileNotFoundError); else an unsupported suffix gives UnsupportedFormat
\* (NotImplementedError); else non-empty indices on content that is neither a
\* mapping nor a table give UnsupportedIndexing (TypeError); with indices
\* absent or empty the content of the file is returned as it is.  The memo
\* gains an entry only if the first two checks passed.
C12_ChecksInOrder ==
    resolved.done =>
        /\ IF ~HasKey(layout, Key("load_path"))
           THEN resolved.out = Raise("ValueError")
           ELSE IF ~PathExistsIn(resolved.fs, NodePath)
           THEN resolved.out = Raise("FileNotFoundError")
           ELSE IF Suffix(NodePath) \notin {".json", ".csv", ".txt"}
           THEN resolved.out = Raise("NotImplementedError")
           ELSE IF NodeHasIndices
           THEN resolved.fs[NodePath].tag \notin {"dict", "frame"}
                    => resolved.out = Raise("TypeError")
           ELSE resolved.out = resolved.fs[NodePath]
        /\ memo # resolved.before =>
              /\ HasKey(layout, Key("load_path"))
              /\ PathExistsIn(resolved.fs, NodePath)

\* a file that was loaded and memoised has been removed, and a node that
\* names it, with indices its content does not support, got FileNotFound
C12_Witness ==
    /\ resolved.done
    /\ HasKey(layout, Key("load_path"))
    /\ NodePath \in MemoKeys(resolved.before)
    /\ NodeHasIndices
    /\ MemoValue(resolved.before, NodePath).tag = "str"
    /\ resolved.out = Raise("FileNotFoundError")
    /\ memo = resolved.before

----------------------------------------------------------------------------
(* The path resolver on its own: SpecPath *)

MaxCandidates == 3

\* candidate templates: two relative ones and an absolute one
CandidatePaths == {<<"thumb.png">>, <<"thumb.jpg">>, <<Root, "shared", "thumb.png">>}

SampleFolders == {<<Root, "r", "a">>, <<Root, "r", "b">>}

\* the files a candidate can resolve to
PathFiles == {Join(d, c) : d \in SampleFolders, c \in CandidatePaths}

FileOf(S) == [p \in S |-> [tag |-> "txt", text |-> <<"x">>]]

CandidateLists ==
    UNION {[1..n -> CandidatePaths] : n \in 1..MaxCandidates}

InitPath ==
    /\ fs \in {FileOf(S) : S \in SUBSET PathFiles}
    /\ path_candidates \in CandidateLists
    /\ sample_folder \in SampleFolders
    /\ fpe_result = NoCall
    /\ TreeIdle
    /\ LruIdle
    /\ AppIdle

CallGetFirstPathExists ==
    /\ fpe_result = NoCall
    /\ fpe_result' = [done |-> TRUE,
                      path |-> get_first_path_exists(fs, path_candidates, sample_folder)]
    /\ UNCHANGED <<fs, path_candidates, sample_folder, treeVars, lruVars, appVars>>

NextPath == CallGetFirstPathExists

SpecPath == InitPath /\ [][NextPath]_vars

NoneExists ==
    \A i \in 1..Len(path_candidates) :
        ~PathExists(full_path(path_candidates[i], sample_folder))

\* The earliest existing candidate is returned as its full path.
ReturnsEarliestExisting ==
    \A i \in 1..Len(path_candidates) :
        (/\ PathExists(full_path(path_candidates[i], sample_folder))
         /\ \A j \in 1..(i - 1) :
                ~PathExists(full_path(path_candidates[j], sample_folder)))
        => fpe_result.path = full_path(path_candidates[i], sample_folder)

\* C1 as stated: get_first_path_exists returns the earliest candidate whose
\* path exists (relative ones joined with the base directory) and, when none
\* exists, the first candidate joined with the base directory in the same way.
C1_FallbackJoined ==
    fpe_result.done =>
        /\ ReturnsEarliestExisting
        /\ NoneExists => fpe_result.path = full_path(path_candidates[1], sample_folder)

\* C1 amended: get_first_path_exists returns the earliest candidate whose
\* path exists (relative ones joined with the base directory) and, when none
\* exists, the first candidate exactly as it was given, not joined with the
\* base directory, and never any other candidate.
C1_FallbackAsGiven ==
    fpe_result.done =>
        /\ ReturnsEarliestExisting
        /\ NoneExists => fpe_result.path = path_candidates[1]

\* the fallback has run on a list of several candidates with a relative first
C1_Witness ==
    /\ fpe_result.done
    /\ NoneExists
    /\ Len(path_candidates) >= 2
    /\ ~IsAbsolute(path_candidates[1])
    /\ path_candidates[2] # path_candidates[1]

=============================================================================
